---- MODULE Spec2Model ----
(***************************************************************************)
(* A model of dna_compressor.py: the FASTA reader, the adaptive order-10   *)
(* ContextModel, the two-pass compress_file, the container bytes, and      *)
(* decompress_file with its 70-column writer; eval.py's get_dna_payload is *)
(* the yardstick of losslessness.                                          *)
(*                                                                         *)
(* Text is a sequence of one-character strings, a file a sequence of bytes *)
(* (0..255).  Numbers wider than TLC's integers are kept exactly: a uint32 *)
(* count is a pair of 16-bit halves, the coder's 64-bit state a sequence   *)
(* of 16 hexadecimal digits (most significant first), a 32-bit word 8.     *)
(***************************************************************************)
EXTENDS Integers, Sequences, FiniteSets, TLC

VARIABLES
    text,              \* the input file's characters
    pc,                \* where the run is
    header,            \* compress_file: header
    sequence,          \* compress_file: sequence
    model,             \* compress_file: model.model (context -> counts)
    context_queue,     \* compress_file: context_queue
    states_to_encode,  \* compress_file: states_to_encode
    encoder,           \* compress_file: encoder
    encoded,           \* compress_file: pairs pass 2 has pushed so far
    file,              \* the compressed file's bytes
    cut,               \* bytes removed from the end of the file after writing
    reads,             \* decompress_file: byte counts the four f.read calls returned
    d_seq_len,         \* decompress_file: seq_len
    d_header,          \* decompress_file: header
    compressed_data,   \* decompress_file: compressed_data (words)
    d_model,           \* decompress_file: model.model
    decoder,           \* decompress_file: decoder
    d_context_queue,   \* decompress_file: context_queue
    probabilities,     \* decompress_file: probabilities of the last iteration
    decoded_sequence,  \* decompress_file: decoded_sequence
    output,            \* the restored file: [exists, data]
    calls,             \* ContextModel calls made so far (ModelSpec)
    error              \* the exception that ended the run, or "none"

vars == <<text, pc, header, sequence, model, context_queue, states_to_encode,
          encoder, encoded, file, cut, reads, d_seq_len, d_header, compressed_data,
          d_model, decoder, d_context_queue, probabilities, decoded_sequence,
          output, calls, error>>

-----------------------------------------------------------------------------
(* Program constants *)

CONTEXT_LENGTH == 10

WRAP == 70

DNA_ALPHABET == <<"A", "C", "G", "T">>

BASE_TO_INDEX == [b \in {"A", "C", "G", "T"} |->
                    CHOOSE i \in 0..3 : DNA_ALPHABET[i + 1] = b]

INDEX_TO_BASE == [i \in 0..3 |-> DNA_ALPHABET[i + 1]]

(* Bounds of the model *)

MaxLines == 4

MaxCut == 5

MaxOver == 1

MaxOps == 3

-----------------------------------------------------------------------------
(* Text: lines, startswith, strip, upper *)

WHITESPACE == {" ", "\n"}

RECURSIVE FirstNewline(_, _)
FirstNewline(t, i) ==
    IF i > Len(t) THEN Len(t)
    ELSE IF t[i] = "\n" THEN i ELSE FirstNewline(t, i + 1)

\* `for line in f`: the lines of the text, each with its terminator
RECURSIVE file_lines(_)
file_lines(t) ==
    IF t = <<>> THEN <<>>
    ELSE LET k == FirstNewline(t, 1)
         IN  <<SubSeq(t, 1, k)>> \o file_lines(SubSeq(t, k + 1, Len(t)))

startswith(line, ch) == Len(line) > 0 /\ line[1] = ch

RECURSIVE lstrip(_)
lstrip(s) ==
    IF s # <<>> /\ s[1] \in WHITESPACE THEN lstrip(Tail(s)) ELSE s

RECURSIVE rstrip(_)
rstrip(s) ==
    IF s # <<>> /\ s[Len(s)] \in WHITESPACE
    THEN rstrip(SubSeq(s, 1, Len(s) - 1)) ELSE s

strip(s) == rstrip(lstrip(s))

upper(ch) ==
    CASE ch = "a" -> "A"
      [] ch = "c" -> "C"
      [] ch = "g" -> "G"
      [] ch = "t" -> "T"
      [] ch = "h" -> "H"
      [] OTHER -> ch

\* the BASE events of one line: line.strip().upper() filtered by BASE_TO_INDEX
RECURSIVE line_bases(_)
line_bases(s) ==
    IF s = <<>> THEN <<>>
    ELSE (IF upper(s[1]) \in DOMAIN BASE_TO_INDEX
          THEN <<[type |-> "BASE", data |-> upper(s[1])]>> ELSE <<>>)
         \o line_bases(Tail(s))

\* a reader that takes the bases of later '>' lines too
RECURSIVE sequence_events_keeping_markers(_)
sequence_events_keeping_markers(ls) ==
    IF ls = <<>> THEN <<>>
    ELSE line_bases(strip(ls[1])) \o sequence_events_keeping_markers(Tail(ls))

\* the second loop of the generator, over the lines the first loop left
RECURSIVE sequence_events(_)
sequence_events(ls) ==
    IF ls = <<>> THEN <<>>
    ELSE (IF startswith(ls[1], ">") THEN <<>> ELSE line_bases(strip(ls[1])))
         \o sequence_events(Tail(ls))

\* the first loop: consumes lines up to and including the first '>' line
RECURSIVE header_search(_)
header_search(ls) ==
    IF ls = <<>> THEN <<>>
    ELSE IF startswith(ls[1], ">")
         THEN <<[type |-> "HEADER", data |-> strip(ls[1])]>>
              \o sequence_events(Tail(ls))
         ELSE header_search(Tail(ls))

\* everything the generator yields for a file
read_fasta_sequence_and_header(t) == header_search(file_lines(t))

\* eval.py: the bases of every line that does not start with '>'
RECURSIVE payload_lines(_)
payload_lines(ls) ==
    IF ls = <<>> THEN <<>>
    ELSE (IF startswith(ls[1], ">") THEN <<>>
          ELSE LET s == strip(ls[1])
               IN  SelectSeq([i \in 1..Len(s) |-> upper(s[i])],
                             LAMBDA c : c \in {"A", "C", "G", "T"}))
         \o payload_lines(Tail(ls))

get_dna_payload(t) == payload_lines(file_lines(t))

-----------------------------------------------------------------------------
(* ContextModel.  A count is a numpy uint32: <<high half, low half>>. *)

HALF == 65536

U32(n) == <<n \div HALF, n % HALF>>

U32_MAX == <<HALF - 1, HALF - 1>>

\* counts[i] += 1 on a uint32 array element
U32Inc(c) ==
    IF c[2] + 1 < HALF THEN <<c[1], c[2] + 1>>
    ELSE <<(c[1] + 1) % HALF, 0>>

\* the value of a count small enough for TLC's integers
U32Val(c) == c[1] * HALF + c[2]

np_ones == [i \in 0..3 |-> U32(1)]

get_or_create_context(m, context) ==
    IF context \in DOMAIN m THEN m ELSE (context :> np_ones) @@ m

update(m, context, symbol_index) ==
    LET m1 == get_or_create_context(m, context)
    IN  [m1 EXCEPT ![context][symbol_index] = U32Inc(@)]

\* counts / total_count is a fresh array: it is represented by the row it was
\* computed from (the quotient vector is a function of that row alone).
\* Returns <<table after the implicit creation, probabilities>>.
get_probabilities(m, context) ==
    LET m1 == get_or_create_context(m, context)
    IN  <<m1, m1[context]>>

\* deque(..., maxlen=CONTEXT_LENGTH).append
queue_append(q, base) == Append(Tail(q), base)

initial_queue == [i \in 1..CONTEXT_LENGTH |-> "N"]

-----------------------------------------------------------------------------
(* constriction.stream.model.Categorical: the probabilities quantised to     *)
(* 24-bit fixed point, leaky (every symbol keeps a weight of at least 1),     *)
(* the weights summing to TOTAL_WEIGHT = 2^24.  Each symbol gets 1 plus the  *)
(* floor of its share of the free weight; what is left goes, one each, to    *)
(* the symbols that gain most (largest probability per unit of weight, the   *)
(* lower index first on a tie).                                              *)

TOTAL_WEIGHT == 16777216

Sum4(f) == f[0] + f[1] + f[2] + f[3]

\* a * b as <<high, low 12 bits>>, for a below 2^15 and b below 2^25
Prod(a, b) ==
    <<a * (b \div 4096) + (a * (b % 4096)) \div 4096, (a * (b % 4096)) % 4096>>

PairLess(x, y) == x[1] < y[1] \/ (x[1] = y[1] /\ x[2] < y[2])

Categorical(probs) ==
    LET c == [i \in 0..3 |-> U32Val(probs[i])]
        normalization == Sum4(c)
        free == TOTAL_WEIGHT - 4
        share == [i \in 0..3 |->
                    (free \div normalization) * c[i]
                    + ((free % normalization) * c[i]) \div normalization]
        remaining == free - Sum4(share)
        w0 == [i \in 0..3 |-> share[i] + 1]
        before(j, i) == \/ PairLess(Prod(c[i], w0[j]), Prod(c[j], w0[i]))
                        \/ (Prod(c[j], w0[i]) = Prod(c[i], w0[j]) /\ j < i)
        rank == [i \in 0..3 |-> Cardinality({j \in 0..3 : before(j, i)})]
        w == [i \in 0..3 |-> IF rank[i] < remaining THEN w0[i] + 1 ELSE w0[i]]
    IN  [probability |-> w,
         left |-> [i \in 0..3 |->
                     IF i = 0 THEN 0
                     ELSE IF i = 1 THEN w[0]
                     ELSE IF i = 2 THEN w[0] + w[1]
                     ELSE w[0] + w[1] + w[2]]]

\* the symbol whose interval [left, left + probability) holds the quantile
quantile_function(dist, quantile) ==
    CHOOSE i \in 0..3 :
        /\ dist.left[i] <= quantile
        /\ quantile < dist.left[i] + dist.probability[i]

-----------------------------------------------------------------------------
(* constriction.stream.stack.AnsCoder with its defaults: 32-bit words, a     *)
(* 64-bit state.  state is 16 hex digits, bulk a stack of words (last = top) *)

STATE_DIGITS == 16

WORD_DIGITS == 8

PRECISION_DIGITS == 6

ZeroDigits(n) == [i \in 1..n |-> 0]

RECURSIVE HexVal(_)
HexVal(ds) ==
    IF ds = <<>> THEN 0
    ELSE HexVal(SubSeq(ds, 1, Len(ds) - 1)) * 16 + ds[Len(ds)]

RECURSIVE ToHex(_, _)
ToHex(n, k) ==
    IF k = 0 THEN <<>> ELSE Append(ToHex(n \div 16, k - 1), n % 16)

\* long division of a digit string by d: <<quotient digits, remainder>>
RECURSIVE DivMod(_, _, _, _)
DivMod(ds, d, i, acc) ==
    IF i > Len(ds) THEN acc
    ELSE LET cur == acc[2] * 16 + ds[i]
         IN  DivMod(ds, d, i + 1, <<Append(acc[1], cur \div d), cur % d>>)

\* ds * m + a, kept to Len(ds) digits
RECURSIVE MulAdd(_, _, _, _)
MulAdd(ds, m, carry, i) ==
    IF i = 0 THEN ds
    ELSE LET cur == ds[i] * m + carry
         IN  MulAdd([ds EXCEPT ![i] = cur % 16], m, cur \div 16, i - 1)

empty_coder == [state |-> ZeroDigits(STATE_DIGITS), bulk |-> <<>>]

\* AnsCoder.encode_reverse of one symbol
encode_symbol(coder, symbol_index, dist) ==
    LET probability == dist.probability[symbol_index]
        left == dist.left[symbol_index]
        \* state >> (64 - 24) >= probability: push the low word
        flush == HexVal(SubSeq(coder.state, 1, STATE_DIGITS - WORD_DIGITS
                                                 - (WORD_DIGITS - PRECISION_DIGITS)))
                   >= probability
        state1 == IF flush
                  THEN ZeroDigits(WORD_DIGITS)
                       \o SubSeq(coder.state, 1, STATE_DIGITS - WORD_DIGITS)
                  ELSE coder.state
        bulk1 == IF flush
                 THEN Append(coder.bulk,
                             SubSeq(coder.state, STATE_DIGITS - WORD_DIGITS + 1,
                                    STATE_DIGITS))
                 ELSE coder.bulk
        qr == DivMod(state1, probability, 1, <<(<<>>), 0>>)
        quantile == left + qr[2]
    IN  [state |-> SubSeq(qr[1], PRECISION_DIGITS + 1, STATE_DIGITS)
                   \o ToHex(quantile, PRECISION_DIGITS),
         bulk |-> bulk1]

\* AnsCoder.decode of one symbol: <<coder, symbol>>; an empty bulk is no error
decode_symbol(coder, dist) ==
    LET quantile == HexVal(SubSeq(coder.state,
                                  STATE_DIGITS - PRECISION_DIGITS + 1, STATE_DIGITS))
        symbol_index == quantile_function(dist, quantile)
        remainder == quantile - dist.left[symbol_index]
        shifted == ZeroDigits(PRECISION_DIGITS)
                   \o SubSeq(coder.state, 1, STATE_DIGITS - PRECISION_DIGITS)
        state1 == MulAdd(shifted, dist.probability[symbol_index], remainder,
                         STATE_DIGITS)
        refill == /\ SubSeq(state1, 1, STATE_DIGITS - WORD_DIGITS)
                       = ZeroDigits(STATE_DIGITS - WORD_DIGITS)
                  /\ coder.bulk # <<>>
    IN  <<[state |-> IF refill
                     THEN SubSeq(state1, STATE_DIGITS - WORD_DIGITS + 1, STATE_DIGITS)
                          \o coder.bulk[Len(coder.bulk)]
                     ELSE state1,
           bulk |-> IF refill THEN SubSeq(coder.bulk, 1, Len(coder.bulk) - 1)
                    ELSE coder.bulk],
          symbol_index>>

\* AnsCoder.get_compressed: the bulk, then the state's words, low word first,
\* leading zero words left out
get_compressed(coder) ==
    LET hi == SubSeq(coder.state, 1, WORD_DIGITS)
        lo == SubSeq(coder.state, WORD_DIGITS + 1, STATE_DIGITS)
    IN  coder.bulk \o
        (IF hi # ZeroDigits(WORD_DIGITS) THEN <<lo, hi>>
         ELSE IF lo # ZeroDigits(WORD_DIGITS) THEN <<lo>> ELSE <<>>)

\* AnsCoder(compressed): [ok, coder]; data ending in a zero word is refused
from_compressed(words) ==
    IF words = <<>> THEN [ok |-> TRUE, coder |-> empty_coder]
    ELSE IF words[Len(words)] = ZeroDigits(WORD_DIGITS)
    THEN [ok |-> FALSE, coder |-> empty_coder]
    ELSE IF Len(words) = 1
    THEN [ok |-> TRUE,
          coder |-> [state |-> ZeroDigits(WORD_DIGITS) \o words[1], bulk |-> <<>>]]
    ELSE [ok |-> TRUE,
          coder |-> [state |-> words[Len(words)] \o words[Len(words) - 1],
                     bulk |-> SubSeq(words, 1, Len(words) - 2)]]

-----------------------------------------------------------------------------
(* The container's bytes *)

\* int.to_bytes(k, 'big')
RECURSIVE to_bytes(_, _)
to_bytes(n, k) ==
    IF k = 0 THEN <<>> ELSE Append(to_bytes(n \div 256, k - 1), n % 256)

\* int.from_bytes(b, 'big')
RECURSIVE from_bytes(_)
from_bytes(b) ==
    IF b = <<>> THEN 0
    ELSE from_bytes(SubSeq(b, 1, Len(b) - 1)) * 256 + b[Len(b)]

CHARS == <<"\n", " ", ">", "A", "C", "G", "T", "N", "a", "c", "g", "t", "h", "H">>

CODES == <<10, 32, 62, 65, 67, 71, 84, 78, 97, 99, 103, 116, 104, 72>>

\* str.encode('utf-8') and bytes.decode('utf-8') on the characters modelled
utf8_encode(s) ==
    [i \in 1..Len(s) |-> CODES[CHOOSE k \in 1..Len(CHARS) : CHARS[k] = s[i]]]

utf8_decode(b) ==
    [i \in 1..Len(b) |-> CHARS[CHOOSE k \in 1..Len(CODES) : CODES[k] = b[i]]]

\* np.array(words, dtype=np.uint32).tobytes(): each word low byte first
word_bytes(w) ==
    <<w[7] * 16 + w[8], w[5] * 16 + w[6], w[3] * 16 + w[4], w[1] * 16 + w[2]>>

RECURSIVE tobytes(_)
tobytes(words) ==
    IF words = <<>> THEN <<>> ELSE word_bytes(Head(words)) \o tobytes(Tail(words))

\* np.frombuffer(b, dtype=np.uint32) of a whole number of words
RECURSIVE frombuffer(_)
frombuffer(b) ==
    IF Len(b) < 4 THEN <<>>
    ELSE << <<b[4] \div 16, b[4] % 16, b[3] \div 16, b[3] % 16,
              b[2] \div 16, b[2] % 16, b[1] \div 16, b[1] % 16>> >>
         \o frombuffer(SubSeq(b, 5, Len(b)))

\* what f.read(n) returns at offset off: at most n bytes, fewer at the end
file_read(f, off, n) ==
    SubSeq(f, off + 1, IF off + n <= Len(f) THEN off + n ELSE Len(f))

\* a writer whose range runs one step too far: an empty line after a full one
RECURSIVE wrapped_lines_one_more(_)
wrapped_lines_one_more(s) ==
    IF Len(s) < WRAP THEN s \o <<"\n">>
    ELSE SubSeq(s, 1, WRAP) \o <<"\n">>
         \o wrapped_lines_one_more(SubSeq(s, WRAP + 1, Len(s)))

\* lines 182-183: the sequence in lines of WRAP bases
RECURSIVE wrapped_lines(_)
wrapped_lines(s) ==
    IF s = <<>> THEN <<>>
    ELSE IF Len(s) <= WRAP THEN s \o <<"\n">>
    ELSE SubSeq(s, 1, WRAP) \o <<"\n">> \o wrapped_lines(SubSeq(s, WRAP + 1, Len(s)))

\* lines 180-183: the text decompress_file writes for a non-empty sequence
restored_text(h, s) == h \o <<"\n">> \o wrapped_lines(s)

-----------------------------------------------------------------------------
(* The inputs: every text of up to MaxLines lines drawn from LineChoices,    *)
(* and a header followed by a generated sequence wrapped at some width.      *)

LineChoices ==
    { <<">", "h">>, <<">", "A", " ">>, <<"A", "C">>, <<"g", "N", "T">> }

RECURSIVE JoinLines(_)
JoinLines(ls) ==
    IF ls = <<>> THEN <<>> ELSE Head(ls) \o <<"\n">> \o JoinLines(Tail(ls))

SmallTexts ==
    { JoinLines(ls) : ls \in UNION { [1..n -> LineChoices] : n \in 0..MaxLines } }

\* generated sequences: all A; a period of three; runs of A broken every 12th
GenBase(kind, i) ==
    CASE kind = 1 -> "A"
      [] kind = 2 -> <<"T", "G", "C">>[(i % 3) + 1]
      [] OTHER -> IF i % 12 = 0 THEN DNA_ALPHABET[((i \div 12) % 4) + 1] ELSE "A"

GenSeq(kind, n) == [i \in 1..n |-> GenBase(kind, i)]

GenLengths ==
    {CONTEXT_LENGTH + 2 + k : k \in 0..MaxOver}
    \cup {WRAP + k : k \in 0..MaxOver}
    \cup {2 * WRAP + MaxOver}

InputWidths == {7, 60}

RECURSIVE WrapAt(_, _)
WrapAt(s, w) ==
    IF s = <<>> THEN <<>>
    ELSE IF Len(s) <= w THEN s \o <<"\n">>
    ELSE SubSeq(s, 1, w) \o <<"\n">> \o WrapAt(SubSeq(s, w + 1, Len(s)), w)

GenTexts ==
    UNION { { <<">", "h", "\n">> \o WrapAt(GenSeq(kind, n), w) :
                n \in GenLengths, w \in {x \in InputWidths : kind = 1 \/ x = 60} } :
            kind \in 1..3 }

InputTexts == SmallTexts \cup GenTexts

EmptyTable == [c \in {} |-> np_ones]

NoFile == [exists |-> FALSE, data |-> <<>>]

Init ==
    /\ text \in InputTexts
    /\ pc = "start"
    /\ header = <<>>
    /\ sequence = <<>>
    /\ model = EmptyTable
    /\ context_queue = initial_queue
    /\ states_to_encode = <<>>
    /\ encoder = empty_coder
    /\ encoded = 0
    /\ file = <<>>
    /\ cut = 0
    /\ reads = <<>>
    /\ d_seq_len = 0
    /\ d_header = <<>>
    /\ compressed_data = <<>>
    /\ d_model = EmptyTable
    /\ decoder = empty_coder
    /\ d_context_queue = initial_queue
    /\ probabilities = np_ones
    /\ decoded_sequence = <<>>
    /\ output = NoFile
    /\ calls = 0
    /\ error = "none"

compress_vars == <<header, sequence, model, context_queue, states_to_encode,
                   encoder, encoded, file>>

decompress_vars == <<reads, d_seq_len, d_header, compressed_data, d_model, decoder,
                     d_context_queue, probabilities, decoded_sequence, output>>

-----------------------------------------------------------------------------
(* compress_file *)

\* lines 62-70: drain the generator into header and sequence
ReadInput ==
    /\ pc = "start"
    /\ LET events == read_fasta_sequence_and_header(text)
           headers == SelectSeq(events, LAMBDA e : e.type = "HEADER")
           bases == SelectSeq(events, LAMBDA e : e.type = "BASE")
       IN  /\ header' = IF headers = <<>> THEN <<>> ELSE headers[Len(headers)].data
           /\ sequence' = [i \in 1..Len(bases) |-> bases[i].data]
    /\ pc' = "read"
    /\ UNCHANGED <<text, model, context_queue, states_to_encode, encoder, encoded,
                   file, cut, calls, error>>
    /\ UNCHANGED decompress_vars

\* an empty container that also carries a zero header-byte-count
empty_container_with_count == [i \in 1..10 |-> 0]

empty_container == [i \in 1..8 |-> 0]

\* lines 72-76: the empty-sequence path
CompressEmpty ==
    /\ pc = "read"
    /\ Len(sequence) = 0
    /\ file' = empty_container
    /\ pc' = "compressed"
    /\ UNCHANGED <<text, header, sequence, model, context_queue, states_to_encode,
                   encoder, encoded, cut, calls, error>>
    /\ UNCHANGED decompress_vars

\* lines 89-95: one iteration of pass 1
Pass1Step ==
    /\ pc \in {"read", "pass1"}
    /\ Len(states_to_encode) < Len(sequence)
    /\ LET base == sequence[Len(states_to_encode) + 1]
           context_str == context_queue
           got == get_probabilities(model, context_str)
           symbol_index == BASE_TO_INDEX[base]
       IN  /\ states_to_encode' =
                 Append(states_to_encode,
                        [symbol_index |-> symbol_index, probabilities |-> got[2]])
           /\ model' = update(got[1], context_str, symbol_index)
           /\ context_queue' = queue_append(context_queue, base)
    /\ pc' = "pass1"
    /\ UNCHANGED <<text, header, sequence, encoder, encoded, file, cut, calls, error>>
    /\ UNCHANGED decompress_vars

\* pass 2 walking the pairs in document order
forward_index(n, k) == k + 1

\* reversed(states_to_encode): the index of the pair pushed after k pushes
reversed_index(n, k) == n - k

\* lines 103-105: one iteration of pass 2, over reversed(states_to_encode)
Pass2Step ==
    /\ pc \in {"pass1", "pass2"}
    /\ Len(states_to_encode) = Len(sequence)
    /\ encoded < Len(states_to_encode)
    /\ LET pair == states_to_encode[reversed_index(Len(states_to_encode), encoded)]
           distribution == Categorical(pair.probabilities)
       IN  encoder' = encode_symbol(encoder, pair.symbol_index, distribution)
    /\ encoded' = encoded + 1
    /\ pc' = "pass2"
    /\ UNCHANGED <<text, header, sequence, model, context_queue, states_to_encode,
                   file, cut, calls, error>>
    /\ UNCHANGED decompress_vars

\* lines 107-117: the container
WriteContainer ==
    /\ pc = "pass2"
    /\ encoded = Len(states_to_encode)
    /\ LET compressed == get_compressed(encoder)
           header_bytes == utf8_encode(header)
       IN  IF Len(header_bytes) > 65535
           THEN /\ error' = "OverflowError"
                /\ pc' = "failed"
                /\ file' = to_bytes(Len(sequence), 8)
           ELSE /\ file' = to_bytes(Len(sequence), 8)
                           \o to_bytes(Len(header_bytes), 2)
                           \o header_bytes
                           \o tobytes(compressed)
                /\ pc' = "compressed"
                /\ error' = error
    /\ UNCHANGED <<text, header, sequence, model, context_queue, states_to_encode,
                   encoder, encoded, cut, calls>>
    /\ UNCHANGED decompress_vars

\* between the two runs: the stored file loses its last k bytes
Truncate(k) ==
    /\ pc = "compressed"
    /\ cut = 0
    /\ k <= Len(file)
    /\ file' = SubSeq(file, 1, Len(file) - k)
    /\ cut' = k
    /\ UNCHANGED <<text, pc, header, sequence, model, context_queue,
                   states_to_encode, encoder, encoded, calls, error>>
    /\ UNCHANGED decompress_vars

-----------------------------------------------------------------------------
(* decompress_file *)

\* lines 138-142: the four reads; np.frombuffer refuses a partial word
ParseContainer ==
    /\ pc = "compressed"
    /\ LET r1 == file_read(file, 0, 8)
           r2 == file_read(file, 8, 2)
           header_len == from_bytes(r2)
           r3 == file_read(file, 10, header_len)
           r4 == file_read(file, 10 + header_len, Len(file))
       IN  /\ reads' = <<Len(r1), Len(r2), Len(r3), Len(r4)>>
           /\ d_seq_len' = from_bytes(r1)
           /\ d_header' = utf8_decode(r3)
           /\ IF Len(r4) % 4 # 0
              THEN /\ error' = "ValueError"
                   /\ pc' = "failed"
                   /\ compressed_data' = compressed_data
              ELSE /\ compressed_data' = frombuffer(r4)
                   /\ pc' = "parsed"
                   /\ error' = error
    /\ UNCHANGED <<text, cut, calls, d_model, decoder, d_context_queue, probabilities,
                   decoded_sequence, output>>
    /\ UNCHANGED compress_vars

\* lines 147-149
DecompressEmpty ==
    /\ pc = "parsed"
    /\ d_seq_len = 0
    /\ output' = [exists |-> TRUE, data |-> d_header]
    /\ pc' = "done"
    /\ UNCHANGED <<text, cut, calls, error, reads, d_seq_len, d_header, compressed_data,
                   d_model, decoder, d_context_queue, probabilities, decoded_sequence>>
    /\ UNCHANGED compress_vars

\* lines 155-157
InitDecoder ==
    /\ pc = "parsed"
    /\ d_seq_len # 0
    /\ d_model' = EmptyTable
    /\ d_context_queue' = initial_queue
    /\ LET made == from_compressed(compressed_data)
       IN  IF made.ok
           THEN /\ decoder' = made.coder
                /\ pc' = "decoding"
                /\ error' = error
           ELSE /\ decoder' = decoder
                /\ pc' = "failed"
                /\ error' = "ValueError"
    /\ UNCHANGED <<text, cut, calls, reads, d_seq_len, d_header, compressed_data,
                   probabilities, decoded_sequence, output>>
    /\ UNCHANGED compress_vars

\* a decode loop that counts the symbol under the window it has already moved
DecodeStepShifted ==
    /\ pc = "decoding"
    /\ Len(decoded_sequence) < d_seq_len
    /\ LET context_str == d_context_queue
           got == get_probabilities(d_model, context_str)
           distribution == Categorical(got[2])
           popped == decode_symbol(decoder, distribution)
           symbol_index == popped[2]
           base == INDEX_TO_BASE[symbol_index]
       IN  /\ probabilities' = got[2]
           /\ decoder' = popped[1]
           /\ d_model' = update(got[1], queue_append(d_context_queue, base),
                                symbol_index)
           /\ decoded_sequence' = Append(decoded_sequence, base)
           /\ d_context_queue' = queue_append(d_context_queue, base)
    /\ UNCHANGED <<text, pc, cut, calls, error, reads, d_seq_len, d_header,
                   compressed_data, output>>
    /\ UNCHANGED compress_vars

\* lines 164-175: one iteration of the decode loop
DecodeStep ==
    /\ pc = "decoding"
    /\ Len(decoded_sequence) < d_seq_len
    /\ LET context_str == d_context_queue
           got == get_probabilities(d_model, context_str)
           distribution == Categorical(got[2])
           popped == decode_symbol(decoder, distribution)
           symbol_index == popped[2]
           base == INDEX_TO_BASE[symbol_index]
       IN  /\ probabilities' = got[2]
           /\ decoder' = popped[1]
           /\ d_model' = update(got[1], context_str, symbol_index)
           /\ decoded_sequence' = Append(decoded_sequence, base)
           /\ d_context_queue' = queue_append(d_context_queue, base)
    /\ UNCHANGED <<text, pc, cut, calls, error, reads, d_seq_len, d_header,
                   compressed_data, output>>
    /\ UNCHANGED compress_vars

\* lines 178-183
WriteOutput ==
    /\ pc = "decoding"
    /\ Len(decoded_sequence) = d_seq_len
    /\ output' = [exists |-> TRUE, data |-> restored_text(d_header, decoded_sequence)]
    /\ pc' = "done"
    /\ UNCHANGED <<text, cut, calls, error, reads, d_seq_len, d_header, compressed_data,
                   d_model, decoder, d_context_queue, probabilities, decoded_sequence>>
    /\ UNCHANGED compress_vars

Next ==
    \/ ReadInput
    \/ CompressEmpty
    \/ Pass1Step
    \/ Pass2Step
    \/ WriteContainer
    \/ \E k \in 1..MaxCut : Truncate(k)
    \/ ParseContainer
    \/ DecompressEmpty
    \/ InitDecoder
    \/ DecodeStep
    \/ WriteOutput

Spec == Init /\ [][Next]_vars

-----------------------------------------------------------------------------
(* What the claims speak of *)

InputLines == file_lines(text)

MarkerLines == {i \in 1..Len(InputLines) : startswith(InputLines[i], ">")}

HasHeader == MarkerLines # {}

FirstMarker == CHOOSE i \in MarkerLines : \A j \in MarkerLines : i <= j

\* a line without its terminator
chomp(line) ==
    IF line # <<>> /\ line[Len(line)] = "\n" THEN SubSeq(line, 1, Len(line) - 1)
    ELSE line

\* the bases of the lines after the first '>' line, by eval.py's rule
BasesAfterHeader ==
    payload_lines(SubSeq(InputLines, FirstMarker + 1, Len(InputLines)))

BasesBeforeHeader == payload_lines(SubSeq(InputLines, 1, FirstMarker - 1))

Compressed == pc \in {"compressed", "parsed", "decoding", "done", "failed"}

Parsed == pc \in {"parsed", "decoding", "done"} \/ (pc = "failed" /\ reads # <<>>)

OutputLines == file_lines(output.data)

\* the bytes of the code-word region as compress_file wrote it
CodeWordBytes == 4 * Len(get_compressed(encoder))

(* C1: round-trip identity.  For an input whose bases all follow its header   *)
(* line and are not empty, the untampered run does not fail, every decode    *)
(* call returns the next base of the input, and the finished output's        *)
(* sequence lines concatenate to the input's bases, whatever its wrapping.   *)
C1_RoundTrip ==
    LET S == get_dna_payload(text)
    IN  (cut = 0 /\ pc \in {"failed", "decoding", "done"}
         /\ HasHeader /\ BasesBeforeHeader = <<>> /\ S # <<>>)
        => /\ pc # "failed"
           /\ d_seq_len = Len(S)
           /\ decoded_sequence = SubSeq(S, 1, Len(decoded_sequence))
           /\ pc = "done" =>
                /\ output.exists
                /\ get_dna_payload(output.data) = S

C1_Witness ==
    /\ pc = "done"
    /\ cut = 0
    /\ HasHeader
    /\ Len(InputLines) >= 4
    /\ Len(compressed_data) >= 3
    /\ get_dna_payload(output.data) = get_dna_payload(text)
    /\ \E i \in 1..Len(sequence) : sequence[i] # "A"

(* C2: corruption detection.  After any positive number of bytes is removed  *)
(* from the end of the code-word region of a valid file of a non-empty       *)
(* sequence, decompress_file never completes.                                *)
C2_TruncationDetected ==
    (Compressed /\ Len(sequence) > 0 /\ cut > 0 /\ cut <= CodeWordBytes)
    => pc # "done"

(* C3: header optional.  For an input with no '>' line the reader returns    *)
(* the empty header and all the bases of its lines, in order.                *)
C3_HeaderOptional ==
    (pc # "start" /\ ~HasHeader)
    => /\ header = <<>>
       /\ sequence = get_dna_payload(text)

(* C4: empty-input stability.  When the reader returns no base, the file     *)
(* written is exactly 8 zero bytes; decompressing exactly that file succeeds *)
(* with no content read for the header-length field, no symbol decoded, and  *)
(* an output holding neither header nor sequence.                            *)
C4_EmptyStable ==
    (Compressed /\ sequence = <<>> /\ cut = 0)
    => /\ file = [i \in 1..8 |-> 0]
       /\ pc \in {"compressed", "parsed", "done"}
       /\ error = "none"
       /\ pc \in {"parsed", "done"} =>
            /\ reads = <<8, 0, 0, 0>>
            /\ d_seq_len = 0
            /\ d_header = <<>>
       /\ decoded_sequence = <<>>
       /\ d_model = EmptyTable
       /\ pc = "done" => output = [exists |-> TRUE, data |-> <<>>]

C4_Witness ==
    /\ pc = "done"
    /\ cut = 0
    /\ sequence = <<>>
    /\ header # <<>>
    /\ output = [exists |-> TRUE, data |-> <<>>]

(* C5: multi-record merge.  For an input with two or more '>' lines, the     *)
(* sequence compressed, and restored by the untampered run, is the bases of  *)
(* every non-'>' line after the first '>' line, in file order; the header    *)
(* stays the first '>' line.                                                 *)
C5_MultiRecordMerge ==
    (Cardinality(MarkerLines) >= 2 /\ pc # "start")
    => /\ sequence = BasesAfterHeader
       /\ header = strip(InputLines[FirstMarker])
       /\ (pc = "done" /\ cut = 0 /\ sequence # <<>>) =>
            /\ get_dna_payload(output.data) = BasesAfterHeader
            /\ chomp(OutputLines[1]) = strip(InputLines[FirstMarker])

C5_Witness ==
    /\ pc = "done"
    /\ cut = 0
    /\ Cardinality(MarkerLines) >= 2
    /\ \E i \in MarkerLines :
         /\ i > FirstMarker + 1
         /\ i < Len(InputLines)
         /\ payload_lines(SubSeq(InputLines, FirstMarker + 1, i - 1)) # <<>>
         /\ payload_lines(SubSeq(InputLines, i + 1, Len(InputLines))) # <<>>
         /\ line_bases(strip(InputLines[i])) # <<>>
    /\ get_dna_payload(output.data) = BasesAfterHeader

(* C6: header preservation.  For an input with a '>' line and a non-empty    *)
(* sequence, the untampered run's output starts with that line verbatim.     *)
C6_HeaderVerbatim ==
    (pc = "done" /\ cut = 0 /\ HasHeader /\ sequence # <<>>)
    => /\ chomp(OutputLines[1]) = chomp(InputLines[FirstMarker])
       /\ get_dna_payload(output.data) = sequence

(* C7: container decode validation.  A file with fewer bytes after the       *)
(* header-byte-count than it declares, or whose bytes after the header are   *)
(* not a whole number of words, makes decompress_file fail before any symbol *)
(* is decoded or any output written.                                         *)
DeclaredHeaderLength == from_bytes(file_read(file, 8, 2))

HeaderShort == Len(file) >= 10 /\ Len(file) - 10 < DeclaredHeaderLength

PartialWord ==
    /\ Len(file) >= 10 + DeclaredHeaderLength
    /\ (Len(file) - 10 - DeclaredHeaderLength) % 4 # 0

C7_ContainerValidated ==
    (Parsed /\ (HeaderShort \/ PartialWord))
    => /\ pc \in {"parsed", "failed"}
       /\ pc = "failed" => error = "ValueError"
       /\ decoded_sequence = <<>>
       /\ ~output.exists

(* C8: output wrapping.  A restored sequence of n >= 1 bases is written as   *)
(* the header line and ceil(n / 70) lines, each ending in a newline, each of *)
(* 70 bases but the last, which holds the 1..70 bases left: a layout fixed   *)
(* by n and the restored bases alone.                                        *)
C8_OutputWrapped ==
    (pc = "done" /\ d_seq_len > 0)
    => LET n == Len(decoded_sequence)
           k == (n + WRAP - 1) \div WRAP
       IN  /\ output.exists
           /\ n = d_seq_len
           /\ Len(OutputLines) = 1 + k
           /\ OutputLines[1] = d_header \o <<"\n">>
           /\ n - WRAP * (k - 1) \in 1..WRAP
           /\ \A j \in 1..k :
                OutputLines[j + 1] =
                    SubSeq(decoded_sequence, WRAP * (j - 1) + 1,
                           IF j < k THEN WRAP * j ELSE n) \o <<"\n">>

C8_Witness ==
    /\ pc = "done"
    /\ cut = 0
    /\ Len(decoded_sequence) > 2 * WRAP
    /\ Len(OutputLines) = 4
    /\ Len(OutputLines[2]) = WRAP + 1
    /\ Len(OutputLines[4]) < WRAP + 1

(* C9: context symmetry.  After t symbols the table and the window of pass 1 *)
(* and those of the decode loop of the untampered run are the same: what     *)
(* replaying the first t bases gives.  The distribution used for symbol t is *)
(* the row read before symbol t is counted, the same on both paths.          *)
ReplayOne(acc, base) ==
    LET row == IF acc.queue \in DOMAIN acc.model THEN acc.model[acc.queue]
               ELSE [i \in 0..3 |-> <<0, 1>>]
        counted == [row EXCEPT ![BASE_TO_INDEX[base]] = U32(U32Val(@) + 1)]
        table == [c \in DOMAIN acc.model \cup {acc.queue} |->
                    IF c = acc.queue THEN counted ELSE acc.model[c]]
    IN  \* the comparison evaluates the table here, one step at a time
        IF table = table
        THEN [model |-> table,
              queue |-> SubSeq(acc.queue, 2, CONTEXT_LENGTH) \o <<base>>]
        ELSE acc

\* acc after the bases s[lo..hi], by halves
RECURSIVE ReplayRange(_, _, _, _)
ReplayRange(acc, s, lo, hi) ==
    IF lo > hi THEN acc
    ELSE IF lo = hi THEN ReplayOne(acc, s[lo])
    ELSE LET mid == (lo + hi) \div 2
             left == ReplayRange(acc, s, lo, mid)
         IN  \* the left half is evaluated before the right half starts
             IF left.queue = left.queue THEN ReplayRange(left, s, mid + 1, hi)
             ELSE acc

Replay(s, t) ==
    ReplayRange([model |-> [c \in {} |-> <<>>],
                 queue |-> [i \in 1..CONTEXT_LENGTH |-> "N"]], s, 1, t)

RowBefore(r) ==
    IF r.queue \in DOMAIN r.model THEN r.model[r.queue] ELSE [i \in 0..3 |-> <<0, 1>>]

\* table m and window q are those after t bases, and used is the row symbol t
\* was coded with on the other path too
Replayed(m, q, t, used) ==
    IF t = 0 THEN m = Replay(sequence, 0).model /\ q = Replay(sequence, 0).queue
    ELSE LET prev == Replay(sequence, t - 1)
             now == ReplayOne(prev, sequence[t])
         IN  /\ m = now.model
             /\ q = now.queue
             /\ used = RowBefore(prev)
             /\ states_to_encode[t].probabilities = used

C9_ContextSymmetry ==
    /\ pc = "pass1" =>
         Replayed(model, context_queue, Len(states_to_encode),
                  states_to_encode[Len(states_to_encode)].probabilities)
    /\ (pc = "decoding" /\ cut = 0) =>
         Replayed(d_model, d_context_queue, Len(decoded_sequence), probabilities)

C9_Witness ==
    /\ pc = "decoding"
    /\ cut = 0
    /\ Len(decoded_sequence) > CONTEXT_LENGTH + 1
    /\ probabilities # np_ones
    /\ d_model = model
    /\ \E c \in DOMAIN d_model : \E i, j \in 0..3 :
         PairLess(U32(2), d_model[c][i]) /\ PairLess(U32(1), d_model[c][j]) /\ i # j

-----------------------------------------------------------------------------
(* ContextModel on its own: any calls of get_probabilities and update, and   *)
(* BURST consecutive calls of update taken as one step.                      *)

\* 2^32 - 2, as a uint32
BURST == <<HALF - 1, HALF - 2>>

U32Add(a, b) ==
    <<(a[1] + b[1] + (a[2] + b[2]) \div HALF) % HALF, (a[2] + b[2]) % HALF>>

\* a + b stays below 2^32
U32Fits(a, b) == a[1] + b[1] + (a[2] + b[2]) \div HALF < HALF

TestContexts == {initial_queue, queue_append(initial_queue, "A")}

ModelInit ==
    /\ text = <<>>
    /\ pc = "model"
    /\ header = <<>>
    /\ sequence = <<>>
    /\ model = EmptyTable
    /\ context_queue = initial_queue
    /\ states_to_encode = <<>>
    /\ encoder = empty_coder
    /\ encoded = 0
    /\ file = <<>>
    /\ cut = 0
    /\ reads = <<>>
    /\ d_seq_len = 0
    /\ d_header = <<>>
    /\ compressed_data = <<>>
    /\ d_model = EmptyTable
    /\ decoder = empty_coder
    /\ d_context_queue = initial_queue
    /\ probabilities = np_ones
    /\ decoded_sequence = <<>>
    /\ output = NoFile
    /\ calls = 0
    /\ error = "none"

model_unchanged == <<text, pc, header, sequence, context_queue, states_to_encode,
                     encoder, encoded, file, cut, reads, d_seq_len, d_header,
                     compressed_data, d_model, decoder, d_context_queue,
                     decoded_sequence, output, error>>

CallGetProbabilities(context) ==
    /\ pc = "model"
    /\ calls < MaxOps
    /\ model' = get_probabilities(model, context)[1]
    /\ probabilities' = get_probabilities(model, context)[2]
    /\ calls' = calls + 1
    /\ UNCHANGED model_unchanged

CallUpdate(context, symbol_index) ==
    /\ pc = "model"
    /\ calls < MaxOps
    /\ model' = update(model, context, symbol_index)
    /\ calls' = calls + 1
    /\ UNCHANGED <<probabilities>>
    /\ UNCHANGED model_unchanged

\* update(context, symbol_index) called BURST times in a row, none of the
\* calls finding the count at its maximum
CallUpdateBurst(context, symbol_index) ==
    /\ pc = "model"
    /\ calls < MaxOps
    /\ U32Fits(get_or_create_context(model, context)[context][symbol_index], BURST)
    /\ model' = [get_or_create_context(model, context)
                   EXCEPT ![context][symbol_index] = U32Add(@, BURST)]
    /\ calls' = calls + 1
    /\ UNCHANGED <<probabilities>>
    /\ UNCHANGED model_unchanged

ModelNext ==
    \/ \E context \in TestContexts : CallGetProbabilities(context)
    \/ \E context \in TestContexts, i \in 0..3 : CallUpdate(context, i)
    \/ \E context \in TestContexts, i \in 0..3 : CallUpdateBurst(context, i)

ModelSpec == ModelInit /\ [][ModelNext]_vars

(* C10: monotonic counts.  Across every call on a ContextModel no count gets *)
(* lower (also when a uint32 count at its maximum is incremented), every     *)
(* count stays at least 1, and no context row is removed.                    *)
C10_MonotonicCounts ==
    [][/\ \A c \in DOMAIN model :
            /\ c \in DOMAIN model'
            /\ \A i \in 0..3 : ~PairLess(model'[c][i], model[c][i])
       /\ \A c \in DOMAIN model' : \A i \in 0..3 : model'[c][i] # U32(0)]_vars

====
